---- MODULE Spec2Model ----
(***************************************************************************)
(* Model of streetlevel/streetview/streetview.py: the panorama download    *)
(* entry points get_panorama (blocking) and get_panorama_async, the tier   *)
(* resolution (_get_panorama_with_sizes, _get_panorama_without_sizes),     *)
(* the tile grid planner (_generate_tile_list) and the tile addresser      *)
(* (_generate_tile_url).  One behaviour is one call of an entry point.     *)
(*                                                                         *)
(* The module imports only the name Session from requests, so the name     *)
(* `requests` is unbound: evaluating requests.get raises NameError.  The   *)
(* model assumes an interpreter that evaluates annotations lazily, so that *)
(* the module itself loads although get_panorama is annotated with         *)
(* requests.Session.                                                       *)
(*                                                                         *)
(* The tile assembler get_equirectangular_panorama lives in ..util, which  *)
(* is not part of the source at hand; it is modelled from section 4.5 of   *)
(* the specification.                                                      *)
(***************************************************************************)
EXTENDS Integers, Sequences, FiniteSets, TLC

VARIABLES
    entry,        \* "sync" (get_panorama) or "async" (get_panorama_async)
    panoid,       \* pano.id, a string
    image_sizes,  \* pano.image_sizes, a sequence of <<x, y>>; <<>> when absent
    tile_size,    \* pano.tile_size, <<width, height>>
    zoom,         \* the requested zoom
    session,      \* TRUE when a session object is passed, FALSE for None
    exists,       \* upstream: the tiers whose (0,0) tile answers 200
    pc,           \* "start", "probing", "assembling", "done"
    test_zoom,    \* loop variable of _get_panorama_without_sizes
    probes,       \* the probe fetches issued so far, in order
    resolved,     \* TRUE once a tier and a size have been selected
    tier,         \* the selected tier (meaningful when resolved)
    img_size,     \* the selected target size (meaningful when resolved)
    canvas,       \* <<width, height>> handed to the assembler
    asm_tile,     \* tile size handed to the assembler
    tiles,        \* the planned tile list handed to the assembler
    pending,      \* planned tile coordinates whose fetch has not completed
    painted,      \* tile coordinates painted into the canvas
    outcome       \* how the call ended; "running" until then

vars == <<entry, panoid, image_sizes, tile_size, zoom, session, exists, pc,
          test_zoom, probes, resolved, tier, img_size, canvas, asm_tile,
          tiles, pending, painted, outcome>>

inputs == <<entry, panoid, image_sizes, tile_size, zoom, session, exists>>

-----------------------------------------------------------------------------
(* Bounds of the model *)

\* requested zooms range over -NegZoom .. MaxZoom
MaxZoom == 6

NegZoom == 2

\* upstream tiers range over 0 .. MaxTier
MaxTier == 6

\* largest grid whose fetches are interleaved one by one (SpecAsm)
MaxAsmTiles == 6

(* Program constants *)

\* base_width, base_height = 416, 208  (size at zoom level 0)
base_width == 416

base_height == 208

\* tile_width, tile_height = 512, 512 of _generate_tile_list
tile_width == 512

tile_height == 512

\* TILE_SIZE = (512, 512) of _get_panorama_without_sizes
TILE_SIZE == <<512, 512>>

\* ZOOM_LEVELS = range(5, -1, -1): its first element
ZOOM_LEVELS_START == 5

-----------------------------------------------------------------------------
(* Pure helpers *)

Max(a, b) == IF a >= b THEN a ELSE b

Min(a, b) == IF a <= b THEN a ELSE b

RECURSIVE Pow2(_)
Pow2(n) == IF n <= 0 THEN 1 ELSE 2 * Pow2(n - 1)

\* Python's -(-a // b) for b > 0
CeilDiv(a, b) == -((-a) \div b)

\* str.startswith
startswith(s, prefix) ==
    /\ Len(s) >= Len(prefix)
    /\ SubSeq(s, 1, Len(prefix)) = prefix

\* mutant: only the "F:" prefix is recognised as official
_is_third_party_panoid_F_only(id) == ~startswith(id, "F:")

_is_third_party_panoid(id) ==
    ~startswith(id, "F:") /\ ~startswith(id, "C:")

_generate_tile_url(id, z, x, y) ==
    IF _is_third_party_panoid(id)
    THEN "https://lh3.ggpht.com/p/" \o id \o "=x" \o ToString(x)
             \o "-y" \o ToString(y) \o "-z" \o ToString(z)
    ELSE "https://cbk0.google.com/cbk?output=tile&panoid=" \o id
             \o "&zoom=" \o ToString(z) \o "&x=" \o ToString(x)
             \o "&y=" \o ToString(y)

_calculate_image_size(z) == <<base_width * Pow2(z), base_height * Pow2(z)>>

\* for x in range(cols): for y in range(rows): tiles.append(Tile(x, y, url))
_generate_tile_list(id, z, size) ==
    LET cols == CeilDiv(size[1], tile_width)
        rows == CeilDiv(size[2], tile_height)
    IN  [i \in 1..(Max(cols, 0) * Max(rows, 0)) |->
            LET x == (i - 1) \div rows
                y == (i - 1) % rows
            IN  [x |-> x, y |-> y, url |-> _generate_tile_url(id, z, x, y)]]

\* mutant: the closing parenthesis of min() slipped past the "- 1"
ClampZoomMisplaced(z, sizes) == Max(0, Min(z, Len(sizes)) - 1)

\* zoom = max(0, min(zoom, len(pano.image_sizes) - 1))
ClampZoom(z, sizes) == Max(0, Min(z, Len(sizes) - 1))

Coords(ts) == {<<ts[i].x, ts[i].y>> : i \in DOMAIN ts}

-----------------------------------------------------------------------------
(* Inputs *)

PanoIds == {"F:a", "C:b", "xF:c", "F"}

\* <<image_sizes, tile_size>> of the panoramas the calls are made on
Panos ==
    { << <<>>, <<512, 512>> >>,
      << << <<416, 208>> >>, <<512, 512>> >>,
      << << <<512, 256>>, <<1024, 512>>, <<1300, 650>> >>, <<512, 512>> >>,
      << << <<512, 256>>, <<1024, 512>> >>, <<256, 256>> >> }

Init ==
    /\ entry \in {"sync", "async"}
    /\ panoid \in PanoIds
    /\ \E p \in Panos : image_sizes = p[1] /\ tile_size = p[2]
    /\ zoom \in (-NegZoom)..MaxZoom
    /\ session \in BOOLEAN
    /\ exists \in IF image_sizes = <<>>
                  THEN SUBSET (0..MaxTier)
                  ELSE {{}, 0..MaxTier}
    /\ pc = "start"
    /\ test_zoom = ZOOM_LEVELS_START
    /\ probes = <<>>
    /\ resolved = FALSE
    /\ tier = 0
    /\ img_size = <<0, 0>>
    /\ canvas = <<0, 0>>
    /\ asm_tile = <<0, 0>>
    /\ tiles = <<>>
    /\ pending = {}
    /\ painted = {}
    /\ outcome = "running"

-----------------------------------------------------------------------------
(* get_panorama, blocking entry point *)

\* hands width, height, tile size and tile list to the assembler
StartAssembly(w, h, tsz, ts) ==
    /\ canvas' = <<w, h>>
    /\ asm_tile' = tsz
    /\ tiles' = ts
    /\ pending' = Coords(ts)
    /\ painted' = {}
    /\ pc' = "assembling"
    /\ outcome' = "running"

Raise(exc) ==
    /\ pc' = "done"
    /\ outcome' = exc
    /\ UNCHANGED <<canvas, asm_tile, tiles, pending, painted>>

\* get_panorama -> _get_panorama_with_sizes, up to the assembler call
_get_panorama_with_sizes ==
    /\ pc = "start" /\ entry = "sync"
    /\ image_sizes # <<>>
    /\ LET z == ClampZoom(zoom, image_sizes)
           size == image_sizes[z + 1]
       IN  /\ resolved' = TRUE
           /\ tier' = z
           /\ img_size' = size
           /\ StartAssembly(size[1], size[2], tile_size,
                            _generate_tile_list(panoid, z, size))
    /\ UNCHANGED <<inputs, test_zoom, probes>>

\* get_panorama -> _get_panorama_without_sizes: enters the loop over ZOOM_LEVELS
_get_panorama_without_sizes ==
    /\ pc = "start" /\ entry = "sync"
    /\ image_sizes = <<>>
    /\ pc' = "probing"
    /\ test_zoom' = ZOOM_LEVELS_START
    /\ UNCHANGED <<inputs, probes, resolved, tier, img_size, canvas,
                   asm_tile, tiles, pending, painted, outcome>>

\* loop iteration with test_zoom > zoom: nothing happens
SkipLevel ==
    /\ pc = "probing" /\ test_zoom >= 0
    /\ ~(test_zoom <= zoom)
    /\ test_zoom' = test_zoom - 1
    /\ UNCHANGED <<inputs, pc, probes, resolved, tier, img_size, canvas,
                   asm_tile, tiles, pending, painted, outcome>>

\* requests.get(...) with session None: the name requests is unbound
ProbeNameError ==
    /\ pc = "probing" /\ test_zoom >= 0
    /\ test_zoom <= zoom
    /\ ~session
    /\ Raise("NameError")
    /\ UNCHANGED <<inputs, test_zoom, probes, resolved, tier, img_size>>

ProbeRecord(status) ==
    [zoom |-> test_zoom,
     url |-> _generate_tile_url(panoid, test_zoom, 0, 0),
     status |-> status]

\* session.get(...) raises (connection error, timeout): nothing catches it
ProbeTransportError ==
    /\ pc = "probing" /\ test_zoom >= 0
    /\ test_zoom <= zoom
    /\ session
    /\ probes' = Append(probes, ProbeRecord("error"))
    /\ Raise("RequestException")
    /\ UNCHANGED <<inputs, test_zoom, resolved, tier, img_size>>

\* mutant: a not-found probe is retried on the same tier
ProbeNotFoundRetry ==
    /\ pc = "probing" /\ test_zoom >= 0
    /\ test_zoom <= zoom
    /\ session
    /\ test_zoom \notin exists
    /\ probes' = Append(probes, ProbeRecord("404"))
    /\ test_zoom' = IF Len(probes) < 1 THEN test_zoom ELSE test_zoom - 1
    /\ UNCHANGED <<inputs, pc, resolved, tier, img_size, canvas, asm_tile,
                   tiles, pending, painted, outcome>>

\* response.status_code != 200: next iteration
ProbeNotFound ==
    /\ pc = "probing" /\ test_zoom >= 0
    /\ test_zoom <= zoom
    /\ session
    /\ test_zoom \notin exists
    /\ probes' = Append(probes, ProbeRecord("404"))
    /\ test_zoom' = test_zoom - 1
    /\ UNCHANGED <<inputs, pc, resolved, tier, img_size, canvas, asm_tile,
                   tiles, pending, painted, outcome>>

\* response.status_code == 200: this zoom level is used
ProbeFound ==
    /\ pc = "probing" /\ test_zoom >= 0
    /\ test_zoom <= zoom
    /\ session
    /\ test_zoom \in exists
    /\ probes' = Append(probes, ProbeRecord("200"))
    /\ LET size == _calculate_image_size(test_zoom)
       IN  /\ resolved' = TRUE
           /\ tier' = test_zoom
           /\ img_size' = size
           /\ StartAssembly(size[1], size[2], TILE_SIZE,
                            _generate_tile_list(panoid, test_zoom, size))
    /\ UNCHANGED <<inputs, test_zoom>>

\* the loop ran out: return None
ReturnNone ==
    /\ pc = "probing" /\ test_zoom < 0
    /\ pc' = "done"
    /\ outcome' = "None"
    /\ UNCHANGED <<inputs, test_zoom, probes, resolved, tier, img_size,
                   canvas, asm_tile, tiles, pending, painted>>

-----------------------------------------------------------------------------
(* get_panorama_async, non-blocking entry point *)

\* _validate_get_panorama_params raises ValueError without image sizes
AsyncValueError ==
    /\ pc = "start" /\ entry = "async"
    /\ image_sizes = <<>>
    /\ Raise("ValueError")
    /\ UNCHANGED <<inputs, test_zoom, probes, resolved, tier, img_size>>

\* with image sizes: the zoom is clamped, image_sizes[zoom] is read, then
\* _generate_tile_list(pano, zoom) is called without its third argument
AsyncTypeError ==
    /\ pc = "start" /\ entry = "async"
    /\ image_sizes # <<>>
    /\ LET z == ClampZoom(zoom, image_sizes)
       IN  /\ resolved' = TRUE
           /\ tier' = z
           /\ img_size' = image_sizes[z + 1]
    /\ Raise("TypeError")
    /\ UNCHANGED <<inputs, test_zoom, probes>>

-----------------------------------------------------------------------------
(* get_equirectangular_panorama, the assembler *)

\* mutant: the assembler gives up as soon as one tile is missing
AssemblerResultStrict(done_painted) ==
    IF done_painted = Coords(tiles) THEN "image" ELSE "AssemblyFailure"

\* the value the assembler returns once every fetch has completed
AssemblerResult(done_painted) ==
    IF done_painted = {} THEN "AssemblyFailure" ELSE "image"

\* the ways the fetches of a whole grid can end, summarised in one step
PaintPatterns(cs) ==
    {{}, cs} \cup {{c} : c \in {d \in cs : d = <<0, 0>>}}
             \cup {cs \ {c} : c \in {d \in cs : d = <<0, 0>>}}

\* all fetches of the call complete and the assembler returns
Assemble ==
    /\ pc = "assembling"
    /\ \E ok \in PaintPatterns(pending) :
          /\ painted' = ok
          /\ outcome' = AssemblerResult(ok)
    /\ pending' = {}
    /\ pc' = "done"
    /\ UNCHANGED <<inputs, test_zoom, probes, resolved, tier, img_size,
                   canvas, asm_tile, tiles>>

\* one fetch completes: painted when fetched and decoded, else left blank
FetchTile ==
    /\ pc = "assembling"
    /\ \E c \in pending, r \in {"ok", "notfound", "transport", "corrupt"} :
          /\ pending' = pending \ {c}
          /\ painted' = IF r = "ok" THEN painted \cup {c} ELSE painted
    /\ UNCHANGED <<inputs, pc, test_zoom, probes, resolved, tier, img_size,
                   canvas, asm_tile, tiles, outcome>>

\* every fetch has completed: the assembler returns
Finish ==
    /\ pc = "assembling"
    /\ pending = {}
    /\ outcome' = AssemblerResult(painted)
    /\ pc' = "done"
    /\ UNCHANGED <<inputs, test_zoom, probes, resolved, tier, img_size,
                   canvas, asm_tile, tiles, pending, painted>>

-----------------------------------------------------------------------------
(* Specifications *)

Call ==
    \/ _get_panorama_with_sizes
    \/ _get_panorama_without_sizes
    \/ SkipLevel
    \/ ProbeNameError
    \/ ProbeTransportError
    \/ ProbeNotFound
    \/ ProbeFound
    \/ ReturnNone
    \/ AsyncValueError
    \/ AsyncTypeError

Next == Call \/ Assemble

Spec == Init /\ [][Next]_vars

\* the grid the call plans holds at most MaxAsmTiles tiles
SmallGrid ==
    IF image_sizes = <<>>
    THEN Len(_generate_tile_list(panoid, 0,
             _calculate_image_size(Max(0, Min(zoom, ZOOM_LEVELS_START)))))
           <= MaxAsmTiles
    ELSE \A i \in DOMAIN image_sizes :
           Len(_generate_tile_list(panoid, 0, image_sizes[i])) <= MaxAsmTiles

InitAsm == Init /\ SmallGrid

NextAsm == Call \/ FetchTile \/ Finish

SpecAsm == InitAsm /\ [][NextAsm]_vars

-----------------------------------------------------------------------------
(* Properties *)

LastIndex == Len(image_sizes) - 1

\* the highest tier of 0..z that exists upstream
HighestExisting(z) ==
    CHOOSE t \in (0..z) \cap exists : \A u \in (0..z) \cap exists : u <= t

ProbeRaised == outcome \in {"NameError", "RequestException"}

\* C1: with a non-empty size list, every requested zoom resolves, to tier
\* max(0, min(zoom, len - 1)) and size image_sizes[tier]: zooms above the
\* last index give the last tier, zooms below 0 give tier 0, no probe is
\* issued and the call never ends with NoAvailableResolution.
C1_ClampResolves ==
    (image_sizes # <<>> /\ pc # "start") =>
        /\ resolved
        /\ tier = (IF zoom < 0 THEN 0
                   ELSE IF zoom > LastIndex THEN LastIndex ELSE zoom)
        /\ img_size = image_sizes[tier + 1]
        /\ probes = <<>>
        /\ outcome # "None"

C1_Witness ==
    /\ entry = "sync" /\ pc = "assembling"
    /\ Len(image_sizes) = 3 /\ zoom = 6
    /\ tier = 2 /\ img_size = <<1300, 650>>
    /\ probes = <<>>

\* C2: without a size list, for every requested zoom z >= 0 and every set of
\* existing tiers, the blocking call that gets an answer to every probe
\* selects the highest existing tier of 0..z, with size
\* (416 * 2^t, 208 * 2^t) and tile size 512x512.
C2_Claim ==
    (/\ entry = "sync" /\ image_sizes = <<>> /\ zoom >= 0
     /\ pc \in {"assembling", "done"} /\ ~ProbeRaised
     /\ (0..zoom) \cap exists # {}) =>
        /\ resolved
        /\ tier = HighestExisting(zoom)
        /\ img_size = <<416 * Pow2(tier), 208 * Pow2(tier)>>
        /\ asm_tile = <<512, 512>>

\* C3: without a size list, when no probe of the call confirms a tier, the
\* blocking call ends with None (NoAvailableResolution), plans no grid and
\* fetches no tile.
C3_Claim ==
    (/\ entry = "sync" /\ image_sizes = <<>> /\ pc = "done"
     /\ \A i \in DOMAIN probes : probes[i].status # "200") =>
        /\ outcome = "None"
        /\ tiles = <<>>
        /\ painted = {}

\* C4: without a size list a requested zoom below 0 is treated as 0: tier 0
\* is probed, a confirmed probe selects tier 0 with size (416, 208), and the
\* call ends with None only when tier 0 was not confirmed.
C4_Claim ==
    (entry = "sync" /\ image_sizes = <<>> /\ zoom < 0 /\ pc = "done") =>
        /\ probes # <<>> \/ ~session
        /\ (session /\ 0 \in exists /\ ~ProbeRaised) =>
               (resolved /\ tier = 0 /\ img_size = <<416, 208>>)
        /\ outcome = "None" => 0 \notin exists

\* what the blocking entry point can end with on this panorama
BlockingOutcomes ==
    IF image_sizes # <<>>
    THEN {"image", "AssemblyFailure"}
    ELSE {"image", "AssemblyFailure", "None", "NameError", "RequestException"}

\* C5: a finished call of the non-blocking entry point has resolved the tier
\* and size, planned the tiles and ended the way the blocking entry point
\* does on the same panorama and zoom.
C5_Claim ==
    (entry = "async" /\ pc = "done") =>
        /\ outcome \in BlockingOutcomes
        /\ image_sizes # <<>> =>
             /\ resolved
             /\ tier = ClampZoom(zoom, image_sizes)
             /\ tiles = _generate_tile_list(panoid, tier, img_size)

\* C6: every call ends with a finished image, NoAvailableResolution (None)
\* or AssemblyFailure; nothing else escapes.
C6_Claim ==
    pc = "done" => outcome \in {"image", "None", "AssemblyFailure"}

\* ceiling of a / b as a property of the result, for b > 0
IsCeil(q, a, b) == (q - 1) * b < a /\ a <= q * b

\* C7: once the fetches of a planned grid have completed, in any order and
\* with any subset failing, the call returns an image of exactly the
\* resolved size holding the painted tiles when at least one tile was
\* painted, and AssemblyFailure exactly when none was; the call does not end
\* while a fetch is pending, whatever failed before.
C7_PartialAssembly ==
    /\ (pc = "done" /\ tiles # <<>>) =>
         /\ painted \subseteq Coords(tiles)
         /\ painted # {} => (outcome = "image" /\ canvas = img_size)
         /\ outcome = "AssemblyFailure" <=> painted = {}
    /\ pending # {} => (pc = "assembling" /\ outcome = "running")

C7_Witness ==
    /\ pc = "done" /\ outcome = "image"
    /\ Cardinality(Coords(tiles)) = 6
    /\ Cardinality(painted) = 5
    /\ canvas = <<1300, 650>>

\* C8: the planned tile list holds exactly one tile for each (x, y) with
\* 0 <= x < ceil(w / tw) and 0 <= y < ceil(h / th), for the resolved size
\* (w, h) and the tile size (tw, th) resolved with it.
C8_Claim ==
    (pc = "assembling") =>
        \E cols \in 1..Max(canvas[1], 1), rows \in 1..Max(canvas[2], 1) :
            /\ IsCeil(cols, canvas[1], asm_tile[1])
            /\ IsCeil(rows, canvas[2], asm_tile[2])
            /\ Len(tiles) = cols * rows
            /\ Coords(tiles) = (0..(cols - 1)) \X (0..(rows - 1))

\* the address templates of the two tile hosts
OfficialAddress(id, t, x, y) ==
    "https://cbk0.google.com/cbk?output=tile&panoid=" \o id \o "&zoom="
        \o ToString(t) \o "&x=" \o ToString(x) \o "&y=" \o ToString(y)

ThirdPartyAddress(id, t, x, y) ==
    "https://lh3.ggpht.com/p/" \o id \o "=x" \o ToString(x) \o "-y"
        \o ToString(y) \o "-z" \o ToString(t)

HasOfficialPrefix(id) ==
    Len(id) >= 2 /\ (SubSeq(id, 1, 2) = "F:" \/ SubSeq(id, 1, 2) = "C:")

ExpectedAddress(id, t, x, y) ==
    IF HasOfficialPrefix(id)
    THEN OfficialAddress(id, t, x, y)
    ELSE ThirdPartyAddress(id, t, x, y)

\* C9: every probe address and every planned tile address follows the
\* official template exactly when the identifier begins with F: or C: and
\* the third-party template otherwise, with the raw identifier, the tile's
\* own column and row and the tier probed or resolved; distinct tile
\* coordinates of a call have distinct addresses (as many addresses as
\* coordinates).  The tile list is fixed when the assembly starts, so its
\* addresses are examined there.
C9_Addresses ==
    /\ \A i \in DOMAIN probes :
         probes[i].url = ExpectedAddress(panoid, probes[i].zoom, 0, 0)
    /\ pc = "assembling" =>
         /\ \A i \in DOMAIN tiles :
              tiles[i].url
                 = ExpectedAddress(panoid, tier, tiles[i].x, tiles[i].y)
         /\ Cardinality({tiles[i].url : i \in DOMAIN tiles})
              = Cardinality(Coords(tiles))
    /\ pc = "done" => tiles = <<>> \/ pending = {}

C9_Witness ==
    /\ panoid = "C:b" /\ image_sizes = <<>> /\ zoom = 6
    /\ Len(probes) = 3 /\ tier = 3 /\ Len(tiles) = 28
    /\ tiles[28].url
         = "https://cbk0.google.com/cbk?output=tile&panoid=C:b&zoom=3&x=6&y=3"

\* tile fetches have been issued
FetchesIssued == pc = "assembling" \/ (pc = "done" /\ tiles # <<>>)

ProbeOrder ==
    /\ \A i \in DOMAIN probes : probes[i].zoom \in 0..zoom
    /\ \A i, j \in DOMAIN probes : i < j => probes[i].zoom > probes[j].zoom
    /\ \A i \in DOMAIN probes : i < Len(probes) => probes[i].status = "404"
    /\ (image_sizes = <<>> /\ FetchesIssued) =>
          (probes # <<>> /\ probes[Len(probes)].status = "200"
             /\ probes[Len(probes)].zoom = tier)

\* C10 as stated: ... and the probing ends after at most zoom + 1 probes.
C10_Claim ==
    /\ ProbeOrder
    /\ (entry = "sync" /\ image_sizes = <<>> /\ pc = "done")
          => Len(probes) <= zoom + 1

\* C10, amended: probes go one at a time in strictly decreasing tier order,
\* at most one per tier, a lower tier only after a not-found answer, none
\* after a confirmation, every tile fetch after the confirming probe, and at
\* most max(zoom, 0) + 1 probes are issued.
C10_ProbeSequence ==
    /\ ProbeOrder
    /\ Len(probes) <= Max(zoom, 0) + 1

C10_Witness ==
    /\ pc = "assembling" /\ zoom = 4 /\ Len(probes) = 5 /\ tier = 0
    /\ probes[5].status = "200"

====
